---------------------------- MODULE Spec2Model ----------------------------
(***************************************************************************)
(* Source-resolution engine of player-nekonode-site.                       *)
(*                                                                         *)
(* The repository holds several generations of the express entry point.    *)
(* Three of them are modelled, one deployment per behaviour (variant):     *)
(*   "V1"  src/src/index.js   lines   1-165                                *)
(*   "V4"  src/src/index.js   lines 348-519                                *)
(*   "P"   src/unnamed/part_000                                            *)
(* together with the StreamWish backend of src/src/lib/streamWish.js.      *)
(*                                                                         *)
(* A string is a sequence of tokens, so that template literals, split,     *)
(* includes and JSON conversion are computed rather than assumed.          *)
(* Every `await` of a handler is one step of the model: the awaited        *)
(* operation takes effect and the handler runs on to its next await.       *)
(***************************************************************************)
EXTENDS Naturals, Integers, Sequences, FiniteSets, TLC

(***************************************************************************)
(* Bounds of the model.                                                    *)
(***************************************************************************)
\* number of requests the deployment serves, in any interleaving
NReq == 2
\* largest number of a[rel="13"] elements on a listing page
MaxEmbeds == 2

Reqs == 1..NReq

(***************************************************************************)
(* Strings.                                                                *)
(***************************************************************************)
\* the empty string (falsy in JS), also standing for an absent query field
Empty == <<>>

\* first index at which pat occurs in str as a contiguous run, 0 if none
IndexOf(str, pat) ==
    LET hits == {i \in 1..(Len(str) + 1 - Len(pat)) :
                    \A j \in 1..Len(pat) : str[i + j - 1] = pat[j]}
    IN IF Len(pat) > Len(str) \/ hits = {} THEN 0
       ELSE CHOOSE i \in hits : \A k \in hits : i <= k

\* String.prototype.includes
Includes(str, pat) == IndexOf(str, pat) > 0

\* str.split(pat)[0]
SplitHead(str, pat) ==
    IF IndexOf(str, pat) = 0 THEN str ELSE SubSeq(str, 1, IndexOf(str, pat) - 1)


\* str.split(tok) for a one-token separator: the pieces, in order
RECURSIVE SplitOn(_, _)
SplitOn(str, tok) ==
    IF IndexOf(str, <<tok>>) = 0 THEN <<str>>
    ELSE <<SubSeq(str, 1, IndexOf(str, <<tok>>) - 1)>>
         \o SplitOn(SubSeq(str, IndexOf(str, <<tok>>) + 1, Len(str)), tok)

(***************************************************************************)
(* The upstream world: what the scraped sites and the fallback API can     *)
(* answer.  Each fetch may also fail.                                      *)
(***************************************************************************)
LinkImg    == <<"cdn/", "poster", ".jpg">>
LinkMp4    == <<"cdn/", "v", ".mp4">>
LinkMaster == <<"cdn/", "master", ".", "m3u8">>

\* the file: "..." links of an embed page, in page order (none: no match)
Pages == { <<>>, <<LinkImg>>, <<LinkMaster, LinkMp4>> }

BodyPlain  == <<"<html>">>
BodyMaster == <<"#", "EXTM3U", "\n",
                "#EXT-X-STREAM-INF:", "RESOLUTION=", "1280", "x", "720", "\n",
                "720/index", ".", "m3u8", "\n">>

\* bodies the manifest URL can answer with
Manifests == { BodyPlain, BodyMaster }

Digits == {"1280", "720", "1920", "1080"}

Src(u, q, m) == [url |-> u, quality |-> q, isM3U8 |-> m]

G1080 == Src(<<"g1080">>, <<"1080">>, TRUE)
G720  == Src(<<"g720">>, <<"720">>, TRUE)
Gdef  == Src(<<"gdef">>, <<"default">>, TRUE)
F720  == Src(<<"f720">>, <<"720">>, TRUE)

\* what GogoCDN.getEpisodeSources can return when it does not throw
GogoLists == { <<>>, <<Gdef>>, <<G1080, G720>> }

\* the `sources` field of the fallback API's answer
FallbackLists == { <<>>, <<F720>> }

(***************************************************************************)
(* The deployed program and its backend registry.                          *)
(***************************************************************************)
Variants == {"V1", "V4", "P"}

Gogo == "gogocdn"
Wish == "streamwish"
\* a server name no variant registers
Other == "vidcdn"

servers(v) == IF v = "P" THEN {Gogo} ELSE {Gogo, Wish}

(***************************************************************************)
(* Requests.                                                               *)
(***************************************************************************)
AnimeIds  == { <<"a">> }
Episodes  == { <<"1">> }
Qualities == { <<"720">> }

Query(o, a, e, q, s) ==
    [op |-> o, anime_id |-> a, episode |-> e, quality |-> q, server |-> s]

NoQuery == Query("none", Empty, Empty, Empty, "")

\* the query strings a client can send to the deployed variant; fields the
\* variant does not read are left empty
RootQueries(v) ==
    { Query("root", a, e, q, s) :
        a \in AnimeIds,
        e \in IF v = "V1" THEN Episodes ELSE {Empty},
        q \in IF v = "P" THEN {Empty} ELSE Qualities,
        s \in {Gogo, Wish} }
    \cup { Query("root", Empty, Empty, Empty, Gogo),
           Query("root", CHOOSE a \in AnimeIds : TRUE,
                 IF v = "V1" THEN <<"0">> ELSE Empty,
                 IF v = "P" THEN Empty ELSE CHOOSE q \in Qualities : TRUE,
                 Other) }

SourcesQueries(v) ==
    { Query("sources", a, e, Empty, "") :
        a \in AnimeIds,
        e \in IF v = "V1" THEN Episodes ELSE {Empty} }
    \cup { Query("sources", Empty, Empty, Empty, "") }

ep_id(v, q) ==
    IF v = "V1" /\ q.episode # <<"0">>
    THEN q.anime_id \o <<"-episode-">> \o q.episode
    ELSE q.anime_id

cacheKey(v, q) ==
    IF q.op = "sources" THEN <<"sources", "-">> \o ep_id(v, q)
    ELSE IF v = "P" THEN <<q.server, "-">> \o ep_id(v, q)
    ELSE <<q.server, "-">> \o ep_id(v, q) \o <<"-">> \o q.quality

Keys == UNION { { cacheKey(v, q) : q \in RootQueries(v) \cup SourcesQueries(v) }
                : v \in Variants }


(***************************************************************************)
(* StreamWish.extract: the synchronous parts between its awaits.           *)
(***************************************************************************)
\* the same loop tagging by the state of the array instead of by lastLink
RECURSIVE PushLinksByArray(_, _, _)
PushLinksByArray(arr, links, lastLink) ==
    IF links = <<>> THEN arr
    ELSE IF Includes(Head(links), <<".jpg">>) \/ Includes(Head(links), <<".png">>)
    THEN PushLinksByArray(arr, Tail(links), lastLink)
    ELSE PushLinksByArray(
           Append(arr, Src(Head(links),
                           IF arr # <<>> THEN <<"backup">> ELSE <<"default">>,
                           Includes(Head(links), <<".", "m3u8">>))),
           Tail(links), Head(links))

\* the for-loop over the cleaned links: image links are skipped, the first
\* link pushed by this call is tagged default, later ones backup
RECURSIVE PushLinks(_, _, _)
PushLinks(arr, links, lastLink) ==
    IF links = <<>> THEN arr
    ELSE IF Includes(Head(links), <<".jpg">>) \/ Includes(Head(links), <<".png">>)
    THEN PushLinks(arr, Tail(links), lastLink)
    ELSE PushLinks(
           Append(arr, Src(Head(links),
                           IF lastLink # Empty THEN <<"backup">> ELSE <<"default">>,
                           Includes(Head(links), <<".", "m3u8">>))),
           Tail(links), Head(links))

\* this.sources.some(source => source.isM3U8)
SomeM3U8(arr) == \E i \in 1..Len(arr) : arr[i].isM3U8

\* this.sources.find(source => source.isM3U8).url
FindM3U8(arr) ==
    arr[CHOOSE i \in 1..Len(arr) :
          arr[i].isM3U8 /\ \A j \in 1..(i - 1) : ~arr[j].isM3U8].url

\* the same match keeping the width, the first number of the attribute
ResolutionWidth(video) ==
    LET hits == {i \in 1..Len(video) :
                    /\ i + 3 <= Len(video)
                    /\ video[i] = "RESOLUTION="
                    /\ video[i + 1] \in Digits
                    /\ video[i + 2] = "x"
                    /\ video[i + 3] \in Digits}
    IN IF hits = {} THEN <<"unknown">>
       ELSE <<video[(CHOOSE i \in hits : \A k \in hits : i <= k) + 1]>>

\* video.match(/RESOLUTION=\d+x(\d+)/), then resolution ? resolution[1] : 'unknown'
Resolution(video) ==
    LET hits == {i \in 1..Len(video) :
                    /\ i + 3 <= Len(video)
                    /\ video[i] = "RESOLUTION="
                    /\ video[i + 1] \in Digits
                    /\ video[i + 2] = "x"
                    /\ video[i + 3] \in Digits}
    IN IF hits = {} THEN <<"unknown">>
       ELSE <<video[(CHOOSE i \in hits : \A k \in hits : i <= k) + 3]>>

\* video.split('\n')[1], as the string concatenation sees it
SecondLine(video) ==
    IF Len(SplitOn(video, "\n")) >= 2 THEN SplitOn(video, "\n")[2]
    ELSE <<"undefined">>

\* the for-loop over videoList
RECURSIVE PushVariants(_, _, _)
PushVariants(arr, m3u8Link, videoList) ==
    IF videoList = <<>> THEN arr
    ELSE IF Includes(Head(videoList), <<"m3u8">>)
    THEN PushVariants(
           Append(arr,
                  Src(SplitHead(m3u8Link, <<"master", ".", "m3u8">>)
                        \o SecondLine(Head(videoList)),
                      Resolution(Head(videoList)),
                      Includes(SplitHead(m3u8Link, <<"master", ".", "m3u8">>)
                                 \o SecondLine(Head(videoList)), <<".", "m3u8">>))),
           m3u8Link, Tail(videoList))
    ELSE PushVariants(arr, m3u8Link, Tail(videoList))

\* the manifest branch once the body has arrived
Expand(arr, m3u8Link, data) ==
    IF Includes(data, <<"EXTM3U">>)
    THEN PushVariants(arr, m3u8Link, SplitOn(data, "#EXT-X-STREAM-INF:"))
    ELSE arr


(***************************************************************************)
(* Values shared by the handlers.                                          *)
(***************************************************************************)
\* a rejected promise / thrown exception
Throw == [throw |-> TRUE]
\* JS undefined where a value was expected
Undefined == [undefined |-> TRUE]
\* getCache's null
NoEntry == [none |-> TRUE]

IsThrow(x) == "throw" \in DOMAIN x
IsUndefined(x) == "undefined" \in DOMAIN x
IsList(x) == "list" \in DOMAIN x

(***************************************************************************)
(* JSON.  A JSON value is a tree; its text is a sequence of tokens.        *)
(***************************************************************************)
JStr(str)  == [t |-> "str",  v |-> str]
JBool(b)   == [t |-> "bool", v |-> b]
JArr(elts) == [t |-> "arr",  v |-> elts]
\* members in insertion order, each [k |-> key, v |-> value]
JObj(mems) == [t |-> "obj",  v |-> mems]

\* the text of a value, as JSON.stringify writes it (no token of a modelled
\* string is a quote, so nothing needs escaping)
RECURSIVE Encode(_)
RECURSIVE EncodeAll(_, _)
EncodeAll(elts, asMembers) ==
    IF elts = <<>> THEN <<>>
    ELSE (IF asMembers
          THEN <<"\"", Head(elts).k, "\"", ":">> \o Encode(Head(elts).v)
          ELSE Encode(Head(elts)))
         \o (IF Len(elts) > 1 THEN <<",">> ELSE <<>>)
         \o EncodeAll(Tail(elts), asMembers)

Encode(tree) ==
    IF tree.t = "str" THEN <<"\"">> \o tree.v \o <<"\"">>
    ELSE IF tree.t = "bool" THEN (IF tree.v THEN <<"true">> ELSE <<"false">>)
    ELSE IF tree.t = "arr" THEN <<"[">> \o EncodeAll(tree.v, FALSE) \o <<"]">>
    ELSE <<"{">> \o EncodeAll(tree.v, TRUE) \o <<"}">>

\* the closing quote of the string that opens at text[i]
StrEnd(text, i) ==
    CHOOSE j \in (i + 1)..Len(text) :
        text[j] = "\"" /\ \A k \in (i + 1)..(j - 1) : text[k] # "\""

\* JSON.parse by recursive descent: the value that starts at text[i] and the
\* index after it
RECURSIVE ParseValue(_, _)
RECURSIVE ParseElems(_, _, _)
RECURSIVE ParseMembers(_, _, _)
ParseElems(text, i, acc) ==
    IF text[i] = "]" THEN [val |-> JArr(acc), next |-> i + 1]
    ELSE IF text[i] = "," THEN ParseElems(text, i + 1, acc)
    ELSE ParseElems(text, ParseValue(text, i).next,
                    Append(acc, ParseValue(text, i).val))

ParseMembers(text, i, acc) ==
    IF text[i] = "}" THEN [val |-> JObj(acc), next |-> i + 1]
    ELSE IF text[i] = "," THEN ParseMembers(text, i + 1, acc)
    ELSE ParseMembers(text, ParseValue(text, i + 4).next,
                      Append(acc, [k |-> text[i + 1],
                                   v |-> ParseValue(text, i + 4).val]))

ParseValue(text, i) ==
    IF text[i] = "\""
    THEN [val |-> JStr(SubSeq(text, i + 1, StrEnd(text, i) - 1)),
          next |-> StrEnd(text, i) + 1]
    ELSE IF text[i] \in {"true", "false"}
    THEN [val |-> JBool(text[i] = "true"), next |-> i + 1]
    ELSE IF text[i] = "[" THEN ParseElems(text, i + 1, <<>>)
    ELSE ParseMembers(text, i + 1, <<>>)

Decode(text) == ParseValue(text, 1).val

\* obj[key] of a parsed object
Member(obj, key) ==
    obj.v[CHOOSE i \in 1..Len(obj.v) :
            obj.v[i].k = key /\ \A j \in (i + 1)..Len(obj.v) : obj.v[j].k # key].v

HasMember(obj, key) == \E i \in 1..Len(obj.v) : obj.v[i].k = key

\* the objects the handlers store, as JSON values and back
QualityTree(q) == JObj(<< [k |-> "quality", v |-> JStr(q.quality)],
                          [k |-> "url",     v |-> JStr(q.url)] >>)

SourceTree(src) == JObj(<< [k |-> "url",     v |-> JStr(src.url)],
                           [k |-> "quality", v |-> JStr(src.quality)],
                           [k |-> "isM3U8",  v |-> JBool(src.isM3U8)] >>)

SlotTree(slot) ==
    IF "error" \in DOMAIN slot
    THEN JObj(<< [k |-> "error", v |-> JStr(<<slot.error>>)] >>)
    ELSE JArr([i \in 1..Len(slot.list) |-> SourceTree(slot.list[i])])

RECURSIVE SlotMembers(_, _)
SlotMembers(results, todo) ==
    IF todo = {} THEN <<>>
    ELSE LET s == CHOOSE x \in todo : TRUE
         IN <<[k |-> s, v |-> SlotTree(results[s])]>> \o SlotMembers(results, todo \ {s})

ToTree(x) ==
    IF "videoUrl" \in DOMAIN x
    THEN JObj(<< [k |-> "videoUrl", v |-> JStr(x.videoUrl)],
                 [k |-> "qualities",
                  v |-> JArr([i \in 1..Len(x.qualities) |-> QualityTree(x.qualities[i])])] >>)
    ELSE JObj(SlotMembers(x, DOMAIN x))

SlotOf(tree) ==
    IF tree.t = "obj" THEN [error |-> Member(tree, "error").v[1]]
    ELSE [list |-> [i \in 1..Len(tree.v) |->
                      Src(Member(tree.v[i], "url").v,
                          Member(tree.v[i], "quality").v,
                          Member(tree.v[i], "isM3U8").v)]]

FromTree(tree) ==
    IF HasMember(tree, "videoUrl")
    THEN [videoUrl  |-> Member(tree, "videoUrl").v,
          qualities |-> [i \in 1..Len(Member(tree, "qualities").v) |->
                           [quality |-> Member(Member(tree, "qualities").v[i], "quality").v,
                            url     |-> Member(Member(tree, "qualities").v[i], "url").v]]]
    ELSE [s \in {tree.v[i].k : i \in 1..Len(tree.v)} |-> SlotOf(Member(tree, s))]

\* a stringify that loses the qualities of a CacheEntry
JSONstringifyLossy(x) ==
    [json |-> Encode(ToTree(IF "videoUrl" \in DOMAIN x
                            THEN [x EXCEPT !.qualities = <<>>] ELSE x))]

\* JSON.stringify / JSON.parse on the objects the handlers store
JSONstringify(x) == [json |-> Encode(ToTree(x))]
ParseThrows(entry) == "json" \notin DOMAIN entry
JSONparse(entry) == FromTree(Decode(entry.json))

\* if (cachedData): null and the empty string are falsy
Truthy(entry) ==
    /\ entry # NoEntry
    /\ ~("raw" \in DOMAIN entry /\ entry.raw = Empty)

\* res.render / res.json
RenderIndex(d) == [status |-> 200, view |-> "index", data |-> d]
RenderError(st, msg) == [status |-> st, view |-> "error", message |-> msg]
RenderQualityError(msg, avail) ==
    [status |-> 404, view |-> "error", message |-> msg, availableQualities |-> avail]
Json(d) == [status |-> 200, view |-> "json", data |-> d]
NoResponse == [status |-> 0]

\* sources.find(src => src.quality === quality): its index, 0 when absent
FindQuality(list, quality) ==
    IF \E i \in 1..Len(list) : list[i].quality = quality
    THEN CHOOSE i \in 1..Len(list) :
           list[i].quality = quality /\ \A j \in 1..(i - 1) : list[j].quality # quality
    ELSE 0

\* sources.map(src => src.quality)
availableQualities(list) == [i \in 1..Len(list) |-> list[i].quality]

ProxyUrl(u) == <<"https://node-proxy.5yg3y1.easypanel.host/proxy/m3u8?url=">> \o u

\* sources.map(source => ({ quality, url: proxy + source.url }))
MapQualities(list) ==
    [i \in 1..Len(list) |-> [quality |-> list[i].quality, url |-> ProxyUrl(list[i].url)]]

\* qualities.findIndex(q => q.quality === 'backup' || q.quality === 'default'),
\* 1-based, 0 for JS -1
backupIndex(qs) ==
    IF \E i \in 1..Len(qs) : qs[i].quality \in {<<"backup">>, <<"default">>}
    THEN CHOOSE i \in 1..Len(qs) :
           /\ qs[i].quality \in {<<"backup">>, <<"default">>}
           /\ \A j \in 1..(i - 1) : qs[j].quality \notin {<<"backup">>, <<"default">>}
    ELSE 0

\* if (backupIndex > -1) qualities.splice(backupIndex, 1)
Splice(qs) ==
    IF backupIndex(qs) > 0
    THEN SubSeq(qs, 1, backupIndex(qs) - 1) \o SubSeq(qs, backupIndex(qs) + 1, Len(qs))
    ELSE qs

(***************************************************************************)
(* State.                                                                  *)
(***************************************************************************)
VARIABLES
    variant,      \* the deployed entry point
    cache,        \* the CacheStore: key -> entry or NoEntry
    thisSources,  \* this.sources of the registered StreamWish instance
    req,          \* per request: the handler's position, locals and history
    call          \* one function of the program applied on its own (SpecPure)

vars == <<variant, cache, thisSources, req, call>>

\* a request that has not arrived yet
Idle ==
    [ pc        |-> "idle",
      query     |-> NoQuery,
      videoUrl  |-> Empty,       \* videoUrl / fallbackVideoUrl
      qualities |-> <<>>,        \* qualities (part_000)
      arg       |-> NoEntry,     \* the value handed to the setCache in flight
      results   |-> <<>>,        \* /sources: server -> slot
      pending   |-> {},          \* getEpisodeSources calls in flight
      stage     |-> "none",      \* StreamWish.getEpisodeSources: none, listing, extract
      ex        |-> "none",      \* the extract call it started: page, manifest, ok, err
      m3u8Link  |-> Empty,       \* m3u8Link of that extract call
      response  |-> NoResponse,
      \* history of the request, read only by the properties
      lookup    |-> NoEntry,     \* what the first getCache returned
      outcome   |-> <<>>,        \* server -> how its getEpisodeSources call ended
      order     |-> <<>>,        \* the servers in the order their calls ended
      own       |-> <<>>,        \* the sources its extract call itself pushed
      calls     |-> 0,           \* getEpisodeSources calls made
      fallbacks |-> 0,           \* fallbackHandler calls made
      fb        |-> NoEntry,     \* how the fallbackHandler call ended
      sets      |-> 0,           \* setCache calls that took effect
      dels      |-> 0,           \* delCache calls that took effect
      events    |-> {} ]         \* upstream failures met by the backend call

\* no function is applied on its own while the server runs
NoCall == [fn |-> "none"]

Init ==
    /\ variant \in Variants
    /\ cache = [k \in Keys |-> NoEntry]
    /\ thisSources = <<>>
    /\ req = [r \in Reqs |-> Idle]
    /\ call = NoCall


key(r) == cacheKey(variant, req[r].query)

(***************************************************************************)
(* app.get('/'): the code between two awaits, as a function of the slot.   *)
(***************************************************************************)
\* res.render / res.json ends the handler
Respond(R, resp) == [R EXCEPT !.pc = "done", !.response = resp]

\* the outer catch block up to `await fallbackHandler(anime_id)`
CatchPrimary(R) == [R EXCEPT !.pc = "fallback", !.fallbacks = @ + 1]

\* servers[server].getEpisodeSources(ep_id) is called on every server of S
CallBackends(R, S) ==
    [R EXCEPT !.pc = IF R.query.op = "root" THEN "backend" ELSE "fanout",
              !.pending = S,
              !.calls = @ + Cardinality(S),
              !.outcome = [s \in S |-> [pending |-> TRUE]],
              !.stage = IF Wish \in S THEN "listing" ELSE "none"]

\* the parameter checks before the try block
RootValidate(v, R) ==
    IF \/ R.query.anime_id = Empty
       \/ R.query.server = ""
       \/ (v # "P" /\ R.query.quality = Empty)
       \/ (v = "V1" /\ R.query.episode = Empty)
    THEN Respond(R, RenderError(400, "Missing required parameters"))
    ELSE IF R.query.server \notin servers(v)
    THEN Respond(R, RenderError(400, "Invalid server"))
    ELSE [R EXCEPT !.pc = "getCache"]

\* from the answer of getCache to the next await
RootAfterGetCache(v, R, got) ==
    IF IsThrow(got) THEN CatchPrimary(R)
    ELSE IF Truthy(got)
    THEN IF v = "P"
         THEN IF ParseThrows(got) THEN CatchPrimary([R EXCEPT !.lookup = got])
              ELSE Respond([R EXCEPT !.lookup = got], RenderIndex(JSONparse(got)))
         ELSE Respond([R EXCEPT !.lookup = got], RenderIndex([videoUrl |-> got.raw]))
    ELSE CallBackends(R, {R.query.server})

\* the same step with a missing quality handed to the catch block
RootAfterSourcesVThrowing(R, o) ==
    IF IsThrow(o) \/ IsUndefined(o) THEN CatchPrimary(R)
    ELSE IF FindQuality(o.list, R.query.quality) = 0
    THEN CatchPrimary(R)
    ELSE [R EXCEPT !.pc = "setCache",
                   !.videoUrl = o.list[FindQuality(o.list, R.query.quality)].url,
                   !.arg = [raw |-> o.list[FindQuality(o.list, R.query.quality)].url]]

\* V1, V4: from the answer of getEpisodeSources to the next await
RootAfterSourcesV(R, o) ==
    IF IsThrow(o) \/ IsUndefined(o) THEN CatchPrimary(R)
    ELSE IF FindQuality(o.list, R.query.quality) = 0
    THEN Respond(R, RenderQualityError("Requested quality not available",
                                       availableQualities(o.list)))
    ELSE [R EXCEPT !.pc = "setCache",
                   !.videoUrl = o.list[FindQuality(o.list, R.query.quality)].url,
                   !.arg = [raw |-> o.list[FindQuality(o.list, R.query.quality)].url]]

\* the same step taking the url of the last quality as videoUrl
RootAfterSourcesPLast(R, o) ==
    IF IsThrow(o) THEN CatchPrimary(R)
    ELSE IF IsUndefined(o) \/ o.list = <<>>
    THEN Respond(R, RenderError(404, "No sources available"))
    ELSE IF Splice(MapQualities(o.list)) = <<>>
    THEN CatchPrimary(R)
    ELSE [R EXCEPT !.pc = "setCache",
                   !.qualities = Splice(MapQualities(o.list)),
                   !.videoUrl = Splice(MapQualities(o.list))[
                                    Len(Splice(MapQualities(o.list)))].url,
                   !.arg = JSONstringify(
                             [videoUrl  |-> Splice(MapQualities(o.list))[
                                                Len(Splice(MapQualities(o.list)))].url,
                              qualities |-> Splice(MapQualities(o.list))])]

\* part_000: from the answer of getEpisodeSources to the next await
RootAfterSourcesP(R, o) ==
    IF IsThrow(o) THEN CatchPrimary(R)
    ELSE IF IsUndefined(o) \/ o.list = <<>>
    THEN Respond(R, RenderError(404, "No sources available"))
    ELSE IF Splice(MapQualities(o.list)) = <<>>
    THEN CatchPrimary(R)      \* qualities[0].url of an empty array: TypeError
    ELSE [R EXCEPT !.pc = "setCache",
                   !.qualities = Splice(MapQualities(o.list)),
                   !.videoUrl = Splice(MapQualities(o.list))[1].url,
                   !.arg = JSONstringify(
                             [videoUrl  |-> Splice(MapQualities(o.list))[1].url,
                              qualities |-> Splice(MapQualities(o.list))])]

\* the same step without the try block around the backend call
RootAfterSourcesUncaught(v, R, o) ==
    IF IsThrow(o) \/ IsUndefined(o)
    THEN Respond(R, RenderError(500, "Failed to get video URL"))
    ELSE IF v = "P" THEN RootAfterSourcesP(R, o) ELSE RootAfterSourcesV(R, o)

RootAfterSources(v, R, o) ==
    IF v = "P" THEN RootAfterSourcesP(R, o) ELSE RootAfterSourcesV(R, o)

\* what res.render('index', ...) is given after a cache write
IndexData(v, R) ==
    IF v = "P" THEN [videoUrl |-> R.videoUrl, qualities |-> R.qualities]
    ELSE [videoUrl |-> R.videoUrl]

\* from the answer of the primary path's setCache to the end
RootAfterSetCache(v, R, ok) ==
    IF ok THEN Respond([R EXCEPT !.sets = @ + 1], RenderIndex(IndexData(v, R)))
    ELSE CatchPrimary(R)

BothFailed ==
    RenderError(500, "Failed to get video URL from both primary and fallback servers")

\* V1, V4: from the answer of fallbackHandler to the end.  cacheKey is a
\* const of the outer try block and is not in scope in its catch block, so
\* evaluating setCache(cacheKey, ...) or delCache(cacheKey) raises a
\* ReferenceError, which the inner catch answers
RootAfterFallbackV(R, ans) ==
    IF IsThrow(ans) \/ IsUndefined(ans) THEN Respond(R, BothFailed)
    ELSE IF /\ FindQuality(ans.list, R.query.quality) > 0
            /\ ans.list[FindQuality(ans.list, R.query.quality)].url # Empty
    THEN Respond(R, BothFailed)      \* setCache(cacheKey, fallbackVideoUrl)
    ELSE Respond(R, BothFailed)      \* delCache(cacheKey)

\* part_000: from the answer of fallbackHandler to the next await
RootAfterFallbackP(R, ans) ==
    IF IsThrow(ans) THEN Respond(R, BothFailed)
    ELSE IF IsUndefined(ans) \/ ans.list = <<>>
    THEN [R EXCEPT !.pc = "fbDelCache"]
    ELSE [R EXCEPT !.pc = "fbSetCache",
                   !.qualities = MapQualities(ans.list),
                   !.videoUrl = MapQualities(ans.list)[1].url,
                   !.arg = JSONstringify(
                             [videoUrl  |-> MapQualities(ans.list)[1].url,
                              qualities |-> MapQualities(ans.list)])]

RootAfterFallback(v, R, ans) ==
    IF v = "P" THEN RootAfterFallbackP([R EXCEPT !.fb = ans], ans)
    ELSE RootAfterFallbackV([R EXCEPT !.fb = ans], ans)

\* part_000: from the answer of the fallback path's setCache to the end
RootAfterFbSetCache(v, R, ok) ==
    IF ok THEN Respond([R EXCEPT !.sets = @ + 1], RenderIndex(IndexData(v, R)))
    ELSE Respond(R, BothFailed)

\* part_000: from the answer of delCache to the end
RootAfterFbDelCache(v, R, ok) ==
    IF ok
    THEN Respond([R EXCEPT !.dels = @ + 1],
                 RenderError(404, "No fallback sources available"))
    ELSE Respond(R, BothFailed)


(***************************************************************************)
(* app.get('/sources').                                                    *)
(***************************************************************************)
\* the async handler's promise rejects outside any try: express sends nothing
Reject(R) == [R EXCEPT !.pc = "rejected"]

SourcesValidate(v, R) ==
    IF R.query.anime_id = Empty \/ (v = "V1" /\ R.query.episode = Empty)
    THEN Respond(R, RenderError(400, "Missing required parameters"))
    ELSE [R EXCEPT !.pc = "getCache"]

\* from the answer of the first getCache to the next await
SourcesAfterGetCache(v, R, got) ==
    IF IsThrow(got) THEN Reject(R)
    ELSE IF Truthy(got)
    THEN IF v = "V1" THEN [R EXCEPT !.pc = "getCache2", !.lookup = got]
         ELSE IF v = "P"
         THEN IF ParseThrows(got) THEN Reject([R EXCEPT !.lookup = got])
              ELSE Respond([R EXCEPT !.lookup = got], Json(JSONparse(got)))
         ELSE Respond([R EXCEPT !.lookup = got], Json(got.raw))
    ELSE CallBackends(R, servers(v))

\* V1: res.json(await getCache(cacheKey)), the second lookup
SourcesAfterGetCache2(R, got) ==
    IF IsThrow(got) THEN Reject(R)
    ELSE IF got = NoEntry THEN Respond(R, Json(NoEntry))
    ELSE Respond(R, Json(got.raw))

\* results[server] = ..., inside the task's try/catch; list is what the call
\* resolved to, the StreamWish array being held by reference
Slot(o, arr) ==
    IF IsThrow(o) \/ IsUndefined(o) THEN [error |-> "Failed to get sources"]
    ELSE IF "ref" \in DOMAIN o
    THEN IF arr = <<>> THEN [error |-> "No sources found"] ELSE o
    ELSE IF o.list = <<>> THEN [error |-> "No sources found"]
    ELSE o

\* Object.values(results).some(result => result.error)
hasErrors(results) == \E s \in DOMAIN results : "error" \in DOMAIN results[s]

\* the object as JSON.stringify / res.json sees it now
Serialize(results, arr) ==
    [s \in DOMAIN results |->
        IF "ref" \in DOMAIN results[s] THEN [list |-> arr] ELSE results[s]]

\* Promise.all has resolved: up to the next await or the end
Join(v, R, arr) ==
    IF v = "V1"
    THEN [R EXCEPT !.pc = "setCache", !.arg = [raw |-> Serialize(R.results, arr)]]
    ELSE IF hasErrors(R.results) THEN Respond(R, Json(Serialize(R.results, arr)))
    ELSE [R EXCEPT !.pc = "setCache",
                   !.arg = IF v = "P" THEN JSONstringify(Serialize(R.results, arr))
                           ELSE [raw |-> Serialize(R.results, arr)]]

\* a join that resumes on the first task to end (Promise.race)
AnySettled(R) == Cardinality(R.pending) < Cardinality(DOMAIN R.outcome)

\* Promise.all(serverPromises): joins once no task is pending
AllSettled(R) == R.pending = {}

\* the same step without the task's try/catch: a failing call rejects the
\* handler and leaves no slot
SourcesAfterTaskUncaught(v, R, s, o, arr) ==
    IF IsThrow(o) \/ IsUndefined(o) THEN Reject(R)
    ELSE IF AllSettled([R EXCEPT !.results = (s :> Slot(o, arr)) @@ @])
    THEN Join(v, [R EXCEPT !.results = (s :> Slot(o, arr)) @@ @], arr)
    ELSE [R EXCEPT !.results = (s :> Slot(o, arr)) @@ @]

\* one task of the fan-out ends; the last one to end resumes the handler
SourcesAfterTask(v, R, s, o, arr) ==
    IF AllSettled([R EXCEPT !.results = (s :> Slot(o, arr)) @@ @])
    THEN Join(v, [R EXCEPT !.results = (s :> Slot(o, arr)) @@ @], arr)
    ELSE [R EXCEPT !.results = (s :> Slot(o, arr)) @@ @]

\* from the answer of setCache to the end
SourcesAfterSetCache(R, ok, arr) ==
    IF ok THEN Respond([R EXCEPT !.sets = @ + 1], Json(Serialize(R.results, arr)))
    ELSE Reject(R)

(***************************************************************************)
(* A getEpisodeSources call of request slot R on server s ends with o      *)
(* (Throw, Undefined, [list |-> fresh array] or [ref |-> this.sources]).   *)
(***************************************************************************)
Deref(o, arr) == IF "ref" \in DOMAIN o THEN [list |-> arr] ELSE o

Settle(R, s, o, arr) ==
    [R EXCEPT !.pending = @ \ {s}, !.outcome = (s :> Deref(o, arr)) @@ @,
              !.order = Append(@, s)]

Complete(v, R, s, o, arr) ==
    IF R.query.op = "root" THEN RootAfterSources(v, Settle(R, s, o, arr), Deref(o, arr))
    ELSE SourcesAfterTask(v, Settle(R, s, o, arr), s, o, arr)


(***************************************************************************)
(* Actions: one per await of the handlers and of the StreamWish backend.   *)
(***************************************************************************)
\* a request arrives: the handler runs to its first await
Start(r) ==
    /\ req[r].pc = "idle"
    /\ \A i \in 1..(r - 1) : req[i].pc # "idle"     \* requests are numbered as they arrive
    /\ \E q \in RootQueries(variant) \cup SourcesQueries(variant) :
         req' = [req EXCEPT ![r] =
                   IF q.op = "root"
                   THEN RootValidate(variant, [Idle EXCEPT !.query = q])
                   ELSE SourcesValidate(variant, [Idle EXCEPT !.query = q])]
    /\ UNCHANGED <<variant, cache, thisSources, call>>

\* await getCache(cacheKey) answers: the entry, null, or an error
getCache(r) ==
    /\ req[r].pc = "getCache"
    /\ \E got \in {Throw, cache[key(r)]} :
         req' = [req EXCEPT ![r] =
                   IF req[r].query.op = "root"
                   THEN RootAfterGetCache(variant, req[r], got)
                   ELSE SourcesAfterGetCache(variant, req[r], got)]
    /\ UNCHANGED <<variant, cache, thisSources, call>>

\* V1 /sources: the second getCache answers
getCache2(r) ==
    /\ req[r].pc = "getCache2"
    /\ \E got \in {Throw, cache[key(r)]} :
         req' = [req EXCEPT ![r] = SourcesAfterGetCache2(req[r], got)]
    /\ UNCHANGED <<variant, cache, thisSources, call>>

\* a write that is skipped when another request has stored the key already
setCacheOnce(r) ==
    /\ req[r].pc = "setCache"
    /\ \E ok \in BOOLEAN :
         /\ cache' = IF ok /\ cache[key(r)] = NoEntry
                     THEN [cache EXCEPT ![key(r)] = req[r].arg] ELSE cache
         /\ req' = [req EXCEPT ![r] =
                      [(IF req[r].query.op = "root"
                        THEN RootAfterSetCache(variant, req[r], ok)
                        ELSE SourcesAfterSetCache(req[r], ok, thisSources))
                       EXCEPT !.sets = IF cache[key(r)] = NoEntry THEN @ ELSE req[r].sets]]
    /\ UNCHANGED <<variant, thisSources, call>>

\* await setCache(cacheKey, ...) of the primary path or of /sources answers
setCache(r) ==
    /\ req[r].pc = "setCache"
    /\ \E ok \in BOOLEAN :
         /\ cache' = IF ok THEN [cache EXCEPT ![key(r)] = req[r].arg] ELSE cache
         /\ req' = [req EXCEPT ![r] =
                      IF req[r].query.op = "root"
                      THEN RootAfterSetCache(variant, req[r], ok)
                      ELSE SourcesAfterSetCache(req[r], ok, thisSources)]
    /\ UNCHANGED <<variant, thisSources, call>>

\* await fallbackHandler(anime_id) answers
fallbackHandler(r) ==
    /\ req[r].pc = "fallback"
    /\ \E ans \in {Throw, Undefined} \cup {[list |-> l] : l \in FallbackLists} :
         req' = [req EXCEPT ![r] = RootAfterFallback(variant, req[r], ans)]
    /\ UNCHANGED <<variant, cache, thisSources, call>>

\* await setCache(cacheKey, ...) of the fallback path answers
fbSetCache(r) ==
    /\ req[r].pc = "fbSetCache"
    /\ \E ok \in BOOLEAN :
         /\ cache' = IF ok THEN [cache EXCEPT ![key(r)] = req[r].arg] ELSE cache
         /\ req' = [req EXCEPT ![r] = RootAfterFbSetCache(variant, req[r], ok)]
    /\ UNCHANGED <<variant, thisSources, call>>

\* await delCache(cacheKey) answers
delCache(r) ==
    /\ req[r].pc = "fbDelCache"
    /\ \E ok \in BOOLEAN :
         /\ cache' = IF ok THEN [cache EXCEPT ![key(r)] = NoEntry] ELSE cache
         /\ req' = [req EXCEPT ![r] = RootAfterFbDelCache(variant, req[r], ok)]
    /\ UNCHANGED <<variant, thisSources, call>>

\* the history of a single-backend request notes the upstream failure e
Met(R, e) == IF R.query.op = "root" THEN R.events \cup {e} ELSE R.events

\* GogoCDN.getEpisodeSources answers
GogoCDN(r) ==
    /\ Gogo \in req[r].pending
    /\ \/ \E e \in {"fetch", "nolinks"} :
            req' = [req EXCEPT ![r] =
                      Complete(variant, [req[r] EXCEPT !.events = Met(req[r], e)],
                               Gogo, Throw, thisSources)]
       \/ \E l \in GogoLists :
            req' = [req EXCEPT ![r] =
                      Complete(variant, req[r], Gogo, [list |-> l], thisSources)]
    /\ UNCHANGED <<variant, cache, thisSources, call>>

\* StreamWish.getEpisodeSources: axios.get of the listing page answers and
\* the .each callback runs over the n matching elements
WishListing(r) ==
    /\ Wish \in req[r].pending
    /\ req[r].stage = "listing"
    /\ \/ req' = [req EXCEPT ![r] =
                    Complete(variant,
                             [req[r] EXCEPT !.stage = "done", !.events = Met(req[r], "fetch")],
                             Wish, Undefined, thisSources)]
       \/ \E n \in 0..MaxEmbeds :
            req' = [req EXCEPT ![r] =
                      IF n = 0
                      THEN Complete(variant, [req[r] EXCEPT !.stage = "done"],
                                    Wish, [list |-> <<>>], thisSources)
                      ELSE IF n = 1
                      THEN [req[r] EXCEPT !.stage = "extract", !.ex = "page"]
                      \* second element: sources is a promise by now, so
                      \* sources.push throws and the catch returns undefined
                      ELSE Complete(variant,
                                    [req[r] EXCEPT !.stage = "extract", !.ex = "page"],
                                    Wish, Undefined, thisSources)]
    /\ UNCHANGED <<variant, cache, thisSources, call>>

\* what a step pushed onto this.sources
Pushed(before, after) == SubSeq(after, Len(before) + 1, Len(after))

\* the extract call ends: the request resumes if it still awaits the call
ExtractEnds(v, R, o, arr) ==
    IF Wish \in R.pending THEN Complete(v, R, Wish, o, arr) ELSE R

\* StreamWish.extract: this.client.get(videoUrl) answers
WishPage(r) ==
    /\ req[r].ex = "page"
    /\ \/ /\ req' = [req EXCEPT ![r] =
                       ExtractEnds(variant,
                                   [req[r] EXCEPT !.ex = "err", !.events = Met(req[r], "fetch")],
                                   Throw, thisSources)]
          /\ UNCHANGED thisSources
       \/ \E data \in Pages :
            IF data = <<>>
            THEN /\ req' = [req EXCEPT ![r] =
                              ExtractEnds(variant,
                                          [req[r] EXCEPT !.ex = "err",
                                                         !.events = Met(req[r], "nolinks")],
                                          Throw, thisSources)]
                 /\ UNCHANGED thisSources
            ELSE /\ thisSources' = PushLinks(thisSources, data, Empty)
                 /\ req' = [req EXCEPT ![r] =
                              IF SomeM3U8(thisSources')
                              THEN [req[r] EXCEPT !.ex = "manifest",
                                                  !.own = Pushed(thisSources, thisSources'),
                                                  !.m3u8Link = FindM3U8(thisSources')]
                              ELSE ExtractEnds(variant,
                                               [req[r] EXCEPT !.ex = "ok",
                                                   !.own = Pushed(thisSources, thisSources')],
                                               [ref |-> TRUE], thisSources')]
    /\ UNCHANGED <<variant, cache, call>>

\* StreamWish.extract: this.client.get(m3u8Link) answers
WishManifest(r) ==
    /\ req[r].ex = "manifest"
    /\ \/ /\ req' = [req EXCEPT ![r] =
                       ExtractEnds(variant,
                                   [req[r] EXCEPT !.ex = "err",
                                                  !.events = Met(req[r], "manifest")],
                                   Throw, thisSources)]
          /\ UNCHANGED thisSources
       \/ \E data \in Manifests :
            /\ thisSources' = Expand(thisSources, req[r].m3u8Link, data)
            /\ req' = [req EXCEPT ![r] =
                         ExtractEnds(variant,
                                     [req[r] EXCEPT !.ex = "ok",
                                         !.own = @ \o Pushed(thisSources, thisSources')],
                                     [ref |-> TRUE], thisSources')]
    /\ UNCHANGED <<variant, cache, call>>

\* the store drops an entry whose TTL ran out
Expire(k) ==
    /\ cache[k] # NoEntry
    /\ cache' = [cache EXCEPT ![k] = NoEntry]
    /\ UNCHANGED <<variant, thisSources, req, call>>

Next ==
    \/ \E r \in Reqs :
         \/ Start(r)
         \/ getCache(r)
         \/ getCache2(r)
         \/ setCache(r)
         \/ fallbackHandler(r)
         \/ fbSetCache(r)
         \/ delCache(r)
         \/ GogoCDN(r)
         \/ WishListing(r)
         \/ WishPage(r)
         \/ WishManifest(r)
    \/ \E k \in Keys : Expire(k)

Spec == Init /\ [][Next]_vars


(***************************************************************************)
(* The selection code of the root handler, the script of the index view    *)
(* and the manifest branch of StreamWish.extract, each applied on its own  *)
(* to inputs drawn from bounded sets.                                      *)
(***************************************************************************)
\* longest source list handed to the selection code
MaxList == 3
\* most variant segments of a manifest body
MaxSegments == 3

Tags == { <<"default">>, <<"backup">>, <<"720">>, <<"1080">> }
Placeholders == { <<"default">>, <<"backup">> }

\* the lists a backend or the fallback API may hand to the handler: the i-th
\* source has the i-th url, any tag
SourceLists ==
    UNION { { [i \in 1..n |-> Src(<<(<<"A", "B", "C", "D", "E">>)[i]>>, tags[i], TRUE)] :
                tags \in [1..n -> Tags] } : n \in 0..MaxList }

\* quality.quality.replace('p', ''): the first p of the label is dropped
ReplaceP(quality) ==
    IF quality = <<"backup">> THEN <<"backu">> ELSE quality

\* qualities.map(quality => ({ src, type, size, backup: quality.backup || null }))
ViewSources(qualities) ==
    [i \in 1..Len(qualities) |->
        [src    |-> qualities[i].url,
         size   |-> ReplaceP(qualities[i].quality),
         backup |-> IF "backup" \in DOMAIN qualities[i]
                    THEN qualities[i].backup ELSE Empty]]

\* sources.findIndex(s => s.size === source.backup || source.size === source.default):
\* source.default is undefined and never equals a size; 0 for JS -1
ViewFindIndex(sources, source) ==
    IF \E k \in 1..Len(sources) : sources[k].size = source.backup
    THEN CHOOSE k \in 1..Len(sources) :
           /\ sources[k].size = source.backup
           /\ \A j \in 1..(k - 1) : sources[j].size # source.backup
    ELSE 0

\* sources.forEach(source => { if (source.backup) { ...splice(index, 1) } }),
\* from position i on; forEach skips the positions a splice has removed
RECURSIVE ViewForEach(_, _)
ViewForEach(sources, i) ==
    IF i > Len(sources) THEN sources
    ELSE IF sources[i].backup # Empty /\ ViewFindIndex(sources, sources[i]) > 0
    THEN ViewForEach(
           SubSeq(sources, 1, ViewFindIndex(sources, sources[i]) - 1)
             \o SubSeq(sources, ViewFindIndex(sources, sources[i]) + 1, Len(sources)),
           i + 1)
    ELSE ViewForEach(sources, i + 1)

\* sources.find(source => source.size === '1080') || sources[0], as a list of
\* at most one source (none: undefined)
defaultQuality(sources) ==
    IF \E i \in 1..Len(sources) : sources[i].size = <<"1080">>
    THEN <<sources[CHOOSE i \in 1..Len(sources) :
                     /\ sources[i].size = <<"1080">>
                     /\ \A j \in 1..(i - 1) : sources[j].size # <<"1080">>]>>
    ELSE IF sources = <<>> THEN <<>> ELSE <<sources[1]>>

\* the variant segments a manifest body is made of
SegmentKinds == { "720", "1080", "nores", "nopath", "named" }

Segment(kind) ==
    CASE kind = "720"    -> <<"RESOLUTION=", "1280", "x", "720", "\n",
                             "720/index", ".", "m3u8", "\n">>
      [] kind = "1080"   -> <<"RESOLUTION=", "1920", "x", "1080", "\n",
                             "1080/index", ".", "m3u8", "\n">>
      [] kind = "nores"  -> <<"BANDWIDTH=800000", "\n", "low/index", ".", "m3u8", "\n">>
      \* no path line
      [] kind = "nopath" -> <<"RESOLUTION=", "1280", "x", "720">>
      \* no path line, the attribute line names a manifest file
      [] kind = "named"  -> <<"RESOLUTION=", "1280", "x", "720", ",URI=",
                             "720/iframes", ".", "m3u8">>

\* the body of a master playlist with these variant segments
RECURSIVE Playlist(_)
Playlist(kinds) ==
    IF kinds = <<>> THEN <<"#", "EXTM3U", "\n">>
    ELSE Playlist(SubSeq(kinds, 1, Len(kinds) - 1))
           \o <<"#EXT-X-STREAM-INF:">> \o Segment(kinds[Len(kinds)])

\* most file: "..." links of an embed page
MaxLinks == 3

LinkPng == <<"cdn/", "cover", ".png">>

\* the cleaned links of an embed page that has some, in page order
PageLinks ==
    UNION { [1..n -> {LinkImg, LinkPng, LinkMp4, LinkMaster}] : n \in 1..MaxLinks }

\* query strings that pass the handlers' checks: ids and qualities are any
\* non-empty text the client sends, hyphens included
KeyAnimeIds == { <<"x">>, <<"x", "-", "720">> }
KeyQualities == { <<"720">>, <<"1080">>, <<"720", "-", "1080">> }

KeyQueries(v) ==
    { Query("root", a, e, q, s) :
        a \in KeyAnimeIds,
        e \in IF v = "V1" THEN Episodes ELSE {Empty},
        q \in IF v = "P" THEN {Empty} ELSE KeyQualities,
        s \in servers(v) }
    \cup { Query("sources", a, e, Empty, "") :
             a \in KeyAnimeIds,
             e \in IF v = "V1" THEN Episodes ELSE {Empty} }

\* a function call: its input, and how far it has got
Calls ==
    { [fn |-> "select", step |-> "input", list |-> l, path |-> "none",
       qualities |-> <<>>, videoUrl |-> Empty, sources |-> <<>>, chosen |-> <<>>] :
         l \in SourceLists \ {<<>>} }
    \cup
    { [fn |-> "extract", step |-> "input", kinds |-> ks,
       arr |-> PushLinks(<<>>, page, Empty), data |-> Playlist(ks), out |-> <<>>] :
         ks \in UNION { [1..n -> SegmentKinds] : n \in 0..MaxSegments },
         page \in { <<LinkMaster>>, <<LinkMaster, LinkMp4>> } }
    \cup
    { [fn |-> "extract", step |-> "input", kinds |-> <<>>,
       arr |-> PushLinks(<<>>, <<LinkMaster>>, Empty), data |-> BodyPlain, out |-> <<>>] }
    \cup
    { [fn |-> "links", step |-> "input", links |-> ls, arr |-> a, out |-> <<>>] :
         ls \in PageLinks, a \in { <<>>, <<Src(LinkMp4, <<"default">>, FALSE)>> } }
    \cup
    UNION { { [fn |-> "key", step |-> "input", v |-> v, q1 |-> q1, q2 |-> q2,
               k1 |-> Empty, k2 |-> Empty] :
                 q1 \in KeyQueries(v), q2 \in KeyQueries(v) } : v \in Variants }

InitPure ==
    /\ variant = "P"
    /\ cache = [k \in Keys |-> NoEntry]
    /\ thisSources = <<>>
    /\ req = [r \in Reqs |-> Idle]
    /\ call \in Calls

\* part_000 105-113: the primary path selects from the backend's sources
SelectPrimary ==
    /\ call.fn = "select" /\ call.step = "input"
    /\ call' = IF Splice(MapQualities(call.list)) = <<>>
               THEN [call EXCEPT !.step = "threw", !.path = "primary"]
               ELSE [call EXCEPT !.step = "selected", !.path = "primary",
                         !.qualities = Splice(MapQualities(call.list)),
                         !.videoUrl = Splice(MapQualities(call.list))[1].url]
    /\ UNCHANGED <<variant, cache, thisSources, req>>

\* part_000 133-138: the fallback path selects from the fallback sources
SelectFallback ==
    /\ call.fn = "select" /\ call.step = "input"
    /\ call' = [call EXCEPT !.step = "selected", !.path = "fallback",
                    !.qualities = MapQualities(call.list),
                    !.videoUrl = MapQualities(call.list)[1].url]
    /\ UNCHANGED <<variant, cache, thisSources, req>>

\* the script of the index view, given the qualities the handler rendered
RenderView ==
    /\ call.fn = "select" /\ call.step = "selected"
    /\ call' = [call EXCEPT !.step = "viewed",
                    !.sources = ViewForEach(ViewSources(call.qualities), 1),
                    !.chosen = defaultQuality(ViewForEach(ViewSources(call.qualities), 1))]
    /\ UNCHANGED <<variant, cache, thisSources, req>>

\* streamWish.js 56-71 on this.sources = arr, the manifest body having arrived
ExpandManifest ==
    /\ call.fn = "extract" /\ call.step = "input"
    /\ call' = [call EXCEPT !.step = "expanded",
                    !.out = Expand(call.arr, FindM3U8(call.arr), call.data)]
    /\ UNCHANGED <<variant, cache, thisSources, req>>

\* streamWish.js 31-44 on this.sources = arr, the page's links being links
ProcessLinks ==
    /\ call.fn = "links" /\ call.step = "input"
    /\ call' = [call EXCEPT !.step = "pushed",
                    !.out = PushLinks(call.arr, call.links, Empty)]
    /\ UNCHANGED <<variant, cache, thisSources, req>>

\* the cacheKey of two requests to the same deployment
ComputeKeys ==
    /\ call.fn = "key" /\ call.step = "input"
    /\ call' = [call EXCEPT !.step = "keyed",
                    !.k1 = cacheKey(call.v, call.q1),
                    !.k2 = cacheKey(call.v, call.q2)]
    /\ UNCHANGED <<variant, cache, thisSources, req>>

NextPure ==
    \/ SelectPrimary
    \/ SelectFallback
    \/ RenderView
    \/ ExpandManifest
    \/ ProcessLinks
    \/ ComputeKeys

SpecPure == InitPure /\ [][NextPure]_vars


(***************************************************************************)
(* Vocabulary of the properties.                                           *)
(***************************************************************************)
IsRoot(r)    == req[r].query.op = "root"
IsSources(r) == req[r].query.op = "sources"
Ended(r)     == req[r].pc \in {"done", "rejected"}

\* the first cache lookup of the request returned an entry
CacheHit(r) == req[r].lookup # NoEntry

\* the response that serves the entry e from the cache
ServedFromCache(r, e) ==
    IF IsRoot(r)
    THEN RenderIndex(IF variant = "P" THEN JSONparse(e) ELSE [videoUrl |-> e.raw])
    ELSE Json(IF variant = "P" THEN JSONparse(e) ELSE e.raw)

\* how the primary getEpisodeSources call of a single-backend request ended
Primary(r) == req[r].outcome[req[r].query.server]
PrimaryCalled(r) == IsRoot(r) /\ req[r].query.server \in DOMAIN req[r].outcome
PrimaryPending(r) == PrimaryCalled(r) /\ "pending" \in DOMAIN Primary(r)
PrimaryFailed(r) == PrimaryCalled(r) /\ (IsThrow(Primary(r)) \/ IsUndefined(Primary(r)))
PrimaryReturned(r) == PrimaryCalled(r) /\ IsList(Primary(r))

(***************************************************************************)
(* C1.  When the cache lookup of a request (single-backend or all-sources) *)
(* returns an entry, the request responds with exactly that cached data    *)
(* and makes no getEpisodeSources call, no fallbackHandler call, no        *)
(* setCache and no delCache.                                               *)
(* Fails on the V1 /sources handler, which answers with a second lookup.   *)
(***************************************************************************)
C1_CacheHitServesCachedData ==
    \A r \in Reqs :
        CacheHit(r) =>
            /\ req[r].calls = 0 /\ req[r].fallbacks = 0
            /\ req[r].sets = 0 /\ req[r].dels = 0
            /\ req[r].pc = "done" => req[r].response = ServedFromCache(r, req[r].lookup)

\* the same statement for the handlers that answer from their one lookup
C1_HoldsOutsideV1Sources ==
    \A r \in Reqs :
        (CacheHit(r) /\ ~(variant = "V1" /\ IsSources(r))) =>
            /\ req[r].calls = 0 /\ req[r].fallbacks = 0
            /\ req[r].sets = 0 /\ req[r].dels = 0
            /\ req[r].pc = "done" => req[r].response = ServedFromCache(r, req[r].lookup)

(***************************************************************************)
(* C2.  In a single-backend request fallbackHandler is called at most      *)
(* once, never while the primary getEpisodeSources call is pending, and    *)
(* only if that call was made and ended in failure; never when it returned *)
(* sources, cache errors included.                                         *)
(***************************************************************************)
C2_FallbackOnlyAfterPrimaryFailure ==
    \A r \in Reqs :
        IsRoot(r) =>
            /\ req[r].fallbacks <= 1
            /\ req[r].fallbacks >= 1 => PrimaryFailed(r)

FallbackUsable(r) ==
    /\ IsList(req[r].fb)
    /\ IF variant = "P" THEN req[r].fb.list # <<>>
       ELSE FindQuality(req[r].fb.list, req[r].query.quality) > 0

\* the index response made from the fallback answer
FallbackResult(r) ==
    IF variant = "P"
    THEN RenderIndex([videoUrl  |-> MapQualities(req[r].fb.list)[1].url,
                      qualities |-> MapQualities(req[r].fb.list)])
    ELSE RenderIndex([videoUrl |->
             req[r].fb.list[FindQuality(req[r].fb.list, req[r].query.quality)].url])

\* the cache entry that stands for an index response
EntryOf(resp) ==
    IF variant = "P" THEN JSONstringify(resp.data) ELSE [raw |-> resp.data.videoUrl]

C4_FallbackResultCached ==
    [][\A r \in Reqs :
         (/\ IsRoot(r) /\ PrimaryFailed(r)
          /\ req[r].pc # "done" /\ req'[r].pc = "done"
          /\ FallbackUsable(r)')
            => /\ req'[r].response = FallbackResult(r)'
               /\ cache'[key(r)] = EntryOf(req'[r].response)
      ]_vars

(***************************************************************************)
(* C5.  When the primary backend failed and the fallback failed too (it    *)
(* raised, or returned no usable source), the cache holds no entry under   *)
(* the request's cacheKey at the moment the request ends.                  *)
(***************************************************************************)
C5_BothFailedLeavesNoEntry ==
    [][\A r \in Reqs :
         (/\ IsRoot(r) /\ PrimaryFailed(r)
          /\ req[r].pc \in {"fallback", "fbDelCache"}
          /\ req'[r].pc = "done")
            => cache'[key(r)] = NoEntry
      ]_vars

(***************************************************************************)
(* C6.  An all-sources request whose results hold an error marker never    *)
(* changes the cache entry under its "sources-<ep_id>" key.                *)
(***************************************************************************)
C6_PartialFanOutNotCached ==
    [][\A r \in Reqs :
         (IsSources(r) /\ hasErrors(req[r].results) /\ req'[r] # req[r])
            => cache'[key(r)] = cache[key(r)]
      ]_vars

\* the same, with the V1 handler left out
C6_HoldsOutsideV1 ==
    [][\A r \in Reqs :
         (IsSources(r) /\ hasErrors(req[r].results) /\ req'[r] # req[r]
            /\ variant # "V1")
            => cache'[key(r)] = cache[key(r)]
      ]_vars

(***************************************************************************)
(* C7.  In a fan-out every backend's slot is decided by that backend's own *)
(* call alone: an error marker when the call raised, returned nothing or   *)
(* returned an empty list, and the list the call returned otherwise; a     *)
(* slot is written by its own task only, and a failing backend does not    *)
(* make the request fail.  (The StreamWish list is the instance's shared   *)
(* array, so the served list starts with what the call returned.)          *)
(***************************************************************************)
\* a request that went through the fan-out
FannedOut(r) == IsSources(r) /\ req[r].calls > 0

\* the call ended without a source
OwnFailure(o) == IsThrow(o) \/ IsUndefined(o) \/ o.list = <<>>

\* the marker the task writes for such a call
OwnMarker(o) ==
    IF IsThrow(o) \/ IsUndefined(o) THEN [error |-> "Failed to get sources"]
    ELSE [error |-> "No sources found"]

IsPrefix(a, b) == Len(a) <= Len(b) /\ SubSeq(b, 1, Len(a)) = a

C7_FanOutSlotIsolation ==
    \A r \in Reqs :
        FannedOut(r) =>
            /\ \A s \in servers(variant) :
                 IF "pending" \in DOMAIN req[r].outcome[s]
                 THEN s \notin DOMAIN req[r].results
                 ELSE /\ s \in DOMAIN req[r].results
                      /\ IF OwnFailure(req[r].outcome[s])
                         THEN req[r].results[s] = OwnMarker(req[r].outcome[s])
                         ELSE req[r].results[s] =
                                IF s = Wish THEN [ref |-> TRUE] ELSE req[r].outcome[s]
                      /\ req[r].pc = "done" =>
                           IF OwnFailure(req[r].outcome[s])
                           THEN req[r].response.data[s] = OwnMarker(req[r].outcome[s])
                           ELSE /\ IsList(req[r].response.data[s])
                                /\ IsPrefix(req[r].outcome[s].list,
                                            req[r].response.data[s].list)
                                /\ s # Wish =>
                                     req[r].response.data[s] = req[r].outcome[s]
            /\ (req[r].pc = "rejected" /\ variant # "V1") => ~hasErrors(req[r].results)

\* one backend raised, the other's list was served next to the error marker
C7_Witness ==
    \E r \in Reqs :
        /\ FannedOut(r) /\ req[r].pc = "done"
        /\ req[r].order = <<Wish, Gogo>>
        /\ IsThrow(req[r].outcome[Wish])
        /\ req[r].response.data[Wish] = [error |-> "Failed to get sources"]
        /\ req[r].response.data[Gogo] = [list |-> <<G1080, G720>>]

(***************************************************************************)
(* C8.  A fan-out calls getEpisodeSources once on every registered server; *)
(* the handler goes on to the cache write or the response only when all of *)
(* these calls have ended; the response has exactly one slot per server;   *)
(* and two fan-outs whose calls ended the same way hold the same results   *)
(* whatever the order in which the calls ended.                            *)
(***************************************************************************)
\* the handler is past `await Promise.all(serverPromises)`
Joined(r) == FannedOut(r) /\ req[r].pc \in {"setCache", "done", "rejected"}

\* the response's slots, a shared-array slot reduced to its being a list
SlotKinds(r) ==
    [s \in DOMAIN req[r].response.data |->
        IF s = Wish /\ IsList(req[r].response.data[s]) THEN [list |-> <<>>]
        ELSE req[r].response.data[s]]

C8_FanOutJoinsAllBackends ==
    \A r \in Reqs :
        FannedOut(r) =>
            /\ req[r].calls = Cardinality(servers(variant))
            /\ DOMAIN req[r].outcome = servers(variant)
            /\ Joined(r) =>
                 /\ req[r].pending = {}
                 /\ Len(req[r].order) = Cardinality(servers(variant))
                 /\ DOMAIN req[r].results = servers(variant)
            /\ req[r].pc = "done" => DOMAIN req[r].response.data = servers(variant)
            /\ \A q \in Reqs :
                 (Joined(r) /\ Joined(q) /\ req[q].outcome = req[r].outcome) =>
                     /\ req[q].results = req[r].results
                     /\ (req[q].pc = "done" /\ req[r].pc = "done") =>
                           SlotKinds(q) = SlotKinds(r)

\* two fan-outs whose calls ended the same way in opposite orders
C8_Witness ==
    \E r, q \in Reqs :
        /\ FannedOut(r) /\ FannedOut(q)
        /\ req[r].pc = "done" /\ req[q].pc = "done"
        /\ req[r].order = <<Gogo, Wish>> /\ req[q].order = <<Wish, Gogo>>
        /\ req[r].outcome = req[q].outcome
        /\ IsList(req[r].outcome[Gogo]) /\ req[r].outcome[Gogo].list # <<>>
        /\ req[r].response = req[q].response

(***************************************************************************)
(* C9.  V1, V4: when the list the backend returned holds no source whose   *)
(* quality equals the requested one, the request has answered 404 with     *)
(* 'Requested quality not available' and the returned sources' qualities   *)
(* in their order, and has called neither fallbackHandler nor setCache nor *)
(* delCache.                                                               *)
(***************************************************************************)
QualityMissing(r) ==
    /\ IsRoot(r) /\ variant # "P" /\ PrimaryReturned(r)
    /\ FindQuality(Primary(r).list, req[r].query.quality) = 0

C9_QualityMismatchSurfaced ==
    \A r \in Reqs :
        QualityMissing(r) =>
            /\ req[r].pc = "done"
            /\ req[r].response =
                 RenderQualityError("Requested quality not available",
                                    availableQualities(Primary(r).list))
            /\ req[r].fallbacks = 0 /\ req[r].sets = 0 /\ req[r].dels = 0

\* StreamWish returned [default, backup] to a request for 720
C9_Witness ==
    \E r \in Reqs :
        /\ QualityMissing(r) /\ req[r].query.server = Wish
        /\ req[r].pc = "done"
        /\ req[r].response.status = 404
        /\ req[r].response.availableQualities = << <<"default">>, <<"backup">> >>

(***************************************************************************)
(* C10.  A single-backend StreamWish request whose backend call ended with *)
(* 'No video links found' (the embed page held no file link) calls the     *)
(* backend once and calls neither fallbackHandler nor setCache.            *)
(***************************************************************************)
C10_NoLinksFoundSurfacedAsEmpty ==
    \A r \in Reqs :
        (/\ IsRoot(r) /\ req[r].query.server = Wish
         /\ PrimaryCalled(r) /\ IsThrow(Primary(r))
         /\ "nolinks" \in req[r].events) =>
            /\ req[r].calls = 1
            /\ req[r].fallbacks = 0
            /\ req[r].sets = 0

(***************************************************************************)
(* C11.  Every entry in the cache stands for at least one usable source:   *)
(* an entry under a single-backend key holds a non-empty qualities list    *)
(* (V1, V4, which store the bare videoUrl: a non-empty url), and a mapping *)
(* under a "sources-" key holds a non-empty source list in every slot.     *)
(***************************************************************************)
\* the key was computed by app.get('/sources')
IsSourcesKey(k) == Len(k) > 0 /\ k[1] = "sources"

\* the object a stored entry stands for
Stored(e) == IF variant = "P" THEN JSONparse(e) ELSE e.raw

\* the entry stands for at least one usable source
UsableEntry(k, e) ==
    IF IsSourcesKey(k)
    THEN \A s \in DOMAIN Stored(e) :
            IsList(Stored(e)[s]) /\ Stored(e)[s].list # <<>>
    ELSE IF variant = "P" THEN Stored(e).qualities # <<>>
    ELSE Stored(e) # Empty

C11_CacheHoldsUsableSources ==
    \A k \in Keys : cache[k] # NoEntry => UsableEntry(k, cache[k])

\* the same, with the V1 deployment left out
C11_HoldsOutsideV1 ==
    \A k \in Keys : (variant # "V1" /\ cache[k] # NoEntry) => UsableEntry(k, cache[k])

(***************************************************************************)
(* C12.  Cache round trip: a single-backend request that is served the     *)
(* entry another request wrote returns the videoUrl and (part_000) the     *)
(* qualities list, entry by entry and in order, that the writing request   *)
(* returned.                                                               *)
(***************************************************************************)
\* request r was served from the cache the entry that request q wrote
ReadsEntryOf(r, q) ==
    /\ r # q /\ IsRoot(r) /\ IsRoot(q)
    /\ req[r].pc = "done" /\ req[q].pc = "done"
    /\ CacheHit(r) /\ req[q].sets = 1
    /\ key(r) = key(q)
    /\ req[r].lookup = req[q].arg

C12_CacheRoundTrip ==
    \A r, q \in Reqs :
        ReadsEntryOf(r, q) =>
            /\ req[r].response.status = 200 /\ req[q].response.status = 200
            /\ req[r].response.data.videoUrl = req[q].response.data.videoUrl
            /\ variant = "P" =>
                 req[r].response.data.qualities = req[q].response.data.qualities

\* part_000: an entry with two qualities was written and read back
C12_Witness ==
    \E r, q \in Reqs :
        /\ variant = "P" /\ ReadsEntryOf(r, q)
        /\ Len(req[q].response.data.qualities) = 2
        /\ req[r].response = req[q].response

(***************************************************************************)
(* C13.  The list a StreamWish getEpisodeSources call returns holds        *)
(* exactly the sources that call extracted from its own page and manifest: *)
(* nothing left over from earlier calls, nothing pushed by other calls.    *)
(***************************************************************************)
C13_CallReturnsOwnSources ==
    \A r \in Reqs :
        (Wish \in DOMAIN req[r].outcome /\ IsList(req[r].outcome[Wish])) =>
            req[r].outcome[Wish].list = req[r].own

(***************************************************************************)
(* C14.  Requests are not coalesced.  A request whose lookup found no      *)
(* entry and that answers with the result of the primary path has called   *)
(* every backend it asks itself and has done its own cache write, also     *)
(* when another request for the same key did the same in the meantime.     *)
(***************************************************************************)
\* the servers the request asks
Asked(r) == IF IsRoot(r) THEN {req[r].query.server} ELSE servers(variant)

\* the request answered 200 with what its own backend calls returned
AnsweredFromPrimary(r) ==
    /\ req[r].pc = "done"
    /\ req[r].response.status = 200
    /\ ~CacheHit(r)
    /\ req[r].fallbacks = 0
    /\ IsSources(r) => (variant = "V1" \/ ~hasErrors(req[r].results))

C14_NoRequestCoalescing ==
    \A r \in Reqs :
        AnsweredFromPrimary(r) =>
            /\ req[r].calls = Cardinality(Asked(r))
            /\ DOMAIN req[r].outcome = Asked(r)
            /\ req[r].sets = 1

\* two requests for the same key both found no entry, each called the
\* backend once and each wrote what its own call returned; the entry of q,
\* which differs from the one r wrote, is the one left in the cache
C14_Witness ==
    \E r, q \in Reqs :
        /\ r # q
        /\ variant = "P"
        /\ key(r) = key(q)
        /\ AnsweredFromPrimary(r)
        /\ AnsweredFromPrimary(q)
        /\ req[r].sets = 1 /\ req[q].sets = 1
        /\ req[r].calls = 1 /\ req[q].calls = 1
        /\ cache[key(r)] = req[q].arg
        /\ req[r].arg # req[q].arg

(***************************************************************************)
(* C15.  Every request sends exactly one response, whatever the cache, the *)
(* backend and the fallback answer: a handler that has ended has sent a    *)
(* response.                                                               *)
(***************************************************************************)
C15_EndedRequestHasResponded ==
    \A r \in Reqs : Ended(r) => req[r].response # NoResponse

\* the same for the single-backend operation alone
C15_HoldsForRoot ==
    \A r \in Reqs : (IsRoot(r) /\ Ended(r)) => req[r].response # NoResponse

(***************************************************************************)
(* C16.  Placeholder removal is one rule: it removes only entries tagged   *)
(* default or backup and keeps the others in order, and the view's removal *)
(* yields, for the qualities it is handed, what the handler's removal      *)
(* yields for the same qualities.                                          *)
(***************************************************************************)
\* out is what is left of input once some placeholder entries are taken out
OnlyPlaceholdersRemoved(input, out) ==
    \E gone \in SUBSET {i \in 1..Len(input) : input[i].quality \in Placeholders} :
        out = LET Kept(e) == \A i \in gone : input[i] # e IN SelectSeq(input, Kept)

C16_OneRemovalRule ==
    /\ (call.fn = "select" /\ call.step = "selected" /\ call.path = "primary") =>
           OnlyPlaceholdersRemoved(MapQualities(call.list), call.qualities)
    /\ (call.fn = "select" /\ call.step = "viewed") =>
           [i \in 1..Len(call.sources) |-> call.sources[i].src]
             = [i \in 1..Len(Splice(call.qualities)) |-> Splice(call.qualities)[i].url]

\* the handler's own removal takes out placeholders only and keeps the order
C16_HoldsForHandler ==
    (call.fn = "select" /\ call.step = "selected" /\ call.path = "primary") =>
        OnlyPlaceholdersRemoved(MapQualities(call.list), call.qualities)

(***************************************************************************)
(* C17.  In a qualities list the single-backend operation caches and       *)
(* returns, from the primary backend or from the fallback, no entry tagged *)
(* default or backup stands beside a numeric-quality entry.                *)
(***************************************************************************)
C17_NoPlaceholderBesideNumeric ==
    (call.fn = "select" /\ call.step = "selected") =>
        ~ /\ \E i \in 1..Len(call.qualities) : call.qualities[i].quality \in Placeholders
          /\ \E i \in 1..Len(call.qualities) : call.qualities[i].quality \in Tags \ Placeholders

(***************************************************************************)
(* C18.  Best default: of a non-empty list left after placeholder removal  *)
(* the source chosen as the default is the entry of quality 1080 when      *)
(* there is one, and the first entry otherwise.                            *)
(***************************************************************************)
\* the url of the 1080 entry, or of the first entry when none is 1080
BestDefault(qualities) ==
    IF FindQuality(qualities, <<"1080">>) > 0
    THEN qualities[FindQuality(qualities, <<"1080">>)].url
    ELSE qualities[1].url

C18_BestDefaultChosen ==
    /\ (call.fn = "select" /\ call.step = "selected" /\ call.path = "primary") =>
           call.videoUrl = BestDefault(call.qualities)
    /\ (call.fn = "select" /\ call.step = "viewed") =>
           /\ call.chosen # <<>>
           /\ call.chosen[1].src = BestDefault(call.qualities)

\* the view's own choice is the 1080 entry, or else the first
C18_HoldsForView ==
    (call.fn = "select" /\ call.step = "viewed") =>
        /\ call.chosen # <<>>
        /\ call.chosen[1].src = BestDefault(call.qualities)

(***************************************************************************)
(* C19.  For a manifest with the header marker and N valid variant         *)
(* segments the expansion appends exactly N entries after the base         *)
(* sources, the i-th flagged as a manifest and with the height of the i-th *)
(* segment's RESOLUTION attribute as quality, or unknown when the segment  *)
(* has none; the base sources stay in place.                               *)
(***************************************************************************)
\* an attribute line followed by a path line naming a manifest file
ValidKinds == { "720", "1080", "nores" }

\* the height the segment advertises
Height(kind) == IF kind = "nores" THEN <<"unknown">> ELSE <<kind>>

\* the manifest branch has run on a playlist of valid segments only
ExpandedValid ==
    /\ call.fn = "extract"
    /\ call.step = "expanded"
    /\ call.data = Playlist(call.kinds)
    /\ \A i \in 1..Len(call.kinds) : call.kinds[i] \in ValidKinds

ValidOf(kinds) == LET IsValid(k) == k \in ValidKinds IN SelectSeq(kinds, IsValid)

\* the manifest branch has run on a playlist
Expanded ==
    /\ call.fn = "extract"
    /\ call.step = "expanded"
    /\ call.data = Playlist(call.kinds)

C20_MalformedSegmentSkipped ==
    Expanded =>
        /\ Len(call.out) = Len(call.arr) + Len(ValidOf(call.kinds))
        /\ \A i \in 1..Len(ValidOf(call.kinds)) :
              Len(call.arr) + i <= Len(call.out) =>
                  call.out[Len(call.arr) + i].quality = Height(ValidOf(call.kinds)[i])

\* the same for playlists whose malformed segments do not name a manifest file
C20_HoldsWithoutManifestName ==
    (Expanded /\ \A i \in 1..Len(call.kinds) : call.kinds[i] # "named") =>
        /\ Len(call.out) = Len(call.arr) + Len(ValidOf(call.kinds))
        /\ \A i \in 1..Len(ValidOf(call.kinds)) :
              call.out[Len(call.arr) + i].quality = Height(ValidOf(call.kinds)[i])

(***************************************************************************)
(* C21.  When the manifest body lacks the header marker the expansion adds *)
(* nothing and raises no error: the extract call returns exactly the base  *)
(* sources it extracted from its page.                                     *)
(***************************************************************************)
\* the extract call of r fetched a manifest and ended without expanding it:
\* all it pushed are the default / backup entries of its page
EndedUnexpanded(r) ==
    /\ Wish \in DOMAIN req[r].outcome
    /\ IsList(req[r].outcome[Wish])
    /\ req[r].ex = "ok"
    /\ req[r].m3u8Link # Empty
    /\ \A i \in 1..Len(req[r].own) : req[r].own[i].quality \in Placeholders

C21_NoHeaderReturnsBaseSources ==
    \A r \in Reqs : EndedUnexpanded(r) => req[r].outcome[Wish].list = req[r].own

\* the manifest branch alone, on one array: a body without the marker leaves
\* the base sources as they are
C21_HoldsForOneCall ==
    (call.fn = "extract" /\ call.step = "expanded" /\ ~Includes(call.data, <<"EXTM3U">>)) =>
        call.out = call.arr

(***************************************************************************)
(* C22.  Of the links of an embed page the extractor drops the image       *)
(* references and emits the others in page order, the first tagged default *)
(* and every later one backup: the base sources of one call hold exactly   *)
(* one default entry whenever the page has a link that is not an image.    *)
(***************************************************************************)
\* the links of the page that are not image references, in page order
NonImages(links) ==
    LET IsVideo(l) == l[Len(l)] \notin {".jpg", ".png"} IN SelectSeq(links, IsVideo)

\* the loop over the links has run
LinksProcessed == call.fn = "links" /\ call.step = "pushed"

ReturnedAfterListing(r) ==
    /\ Wish \in DOMAIN req[r].outcome
    /\ Wish \notin req[r].pending
    /\ req[r].stage = "extract"

C23_ReturnsAfterAllExtracts ==
    \A r \in Reqs :
        ReturnedAfterListing(r) =>
            /\ req[r].ex \in {"ok", "err"}
            /\ req[r].ex = "ok" => IsList(req[r].outcome[Wish])

\* the same for a listing page with a single embed
C23_HoldsForOneEmbed ==
    \A r \in Reqs :
        (ReturnedAfterListing(r) /\ ~IsUndefined(req[r].outcome[Wish])) =>
            /\ req[r].ex \in {"ok", "err"}
            /\ req[r].ex = "ok" => IsList(req[r].outcome[Wish])

(***************************************************************************)
(* C24.  Every entry stored under a single-backend key, written by the     *)
(* primary or by the fallback path, has as videoUrl the url of the first   *)
(* entry of its qualities list, and so has every successful single-backend *)
(* response (part_000, the deployment that keeps a qualities list).        *)
(***************************************************************************)
\* videoUrl is the url of the first of the qualities
FirstQualityUrl(d) == d.qualities # <<>> /\ d.videoUrl = d.qualities[1].url

C24_VideoUrlIsFirstQuality ==
    variant = "P" =>
        /\ \A k \in Keys :
              (~IsSourcesKey(k) /\ cache[k] # NoEntry) => FirstQualityUrl(Stored(cache[k]))
        /\ \A r \in Reqs :
              (IsRoot(r) /\ req[r].pc = "done" /\ req[r].response.status = 200) =>
                  FirstQualityUrl(req[r].response.data)

\* r answered from the primary path with two qualities, q from the fallback
\* path, whose entry is the one in the cache
C24_Witness ==
    \E r, q \in Reqs :
        /\ variant = "P"
        /\ IsRoot(r) /\ IsRoot(q)
        /\ req[r].pc = "done" /\ req[q].pc = "done"
        /\ req[r].response.status = 200 /\ req[q].response.status = 200
        /\ req[r].fallbacks = 0 /\ req[r].sets = 1
        /\ Len(req[r].response.data.qualities) = 2
        /\ req[q].fallbacks = 1 /\ req[q].sets = 1
        /\ cache[key(q)] = req[q].arg

(***************************************************************************)
(* C25.  Cache keys are injective on requests: two requests to the same    *)
(* deployment that differ in operation, backend name, episode reference or *)
(* requested quality never compute the same cache key.                     *)
(***************************************************************************)
\* what the request asks for: operation, backend, episode reference, quality
Asks(v, q) == <<q.op, q.server, ep_id(v, q), q.quality>>

C25_CacheKeysInjective ==
    (call.fn = "key" /\ call.step = "keyed") =>
        (Asks(call.v, call.q1) # Asks(call.v, call.q2) => call.k1 # call.k2)

\* the same for part_000, whose key has no quality part
C25_HoldsForPart000 ==
    (call.fn = "key" /\ call.step = "keyed" /\ call.v = "P") =>
        (Asks(call.v, call.q1) # Asks(call.v, call.q2) => call.k1 # call.k2)

=============================================================================
